---- MODULE Spec2Model ----
(***************************************************************************)
(* A model of pp_seva_auto/backend/python/passport_automation.py:          *)
(* the chromedriver locator (find_local_chromedriver), the session object  *)
(* PassportAutomation with its stage methods, and the script's top-level   *)
(* flow.  The browser, the page and the filesystem are the environment:    *)
(* what a step finds on the screen it works on is an input of that step.   *)
(*                                                                         *)
(* Python values: a str is a sequence of characters (or of name tokens for *)
(* paths), None and "" are both the empty sequence where only truthiness   *)
(* is read, and an optional result is <<>> (None) or <<value>>.            *)
(***************************************************************************)
EXTENDS Integers, Sequences, FiniteSets, TLC

(***************************************************************************)
(* Bounds of the model.                                                    *)
(***************************************************************************)
\* files listed by the cache directory tree
MaxCand == 2
\* modification times are 1..MaxMtime
MaxMtime == 3
\* departures from the intended run that one step meets: fields of the
\* applicant record that are absent or empty, plus elements of the step's
\* screen that are absent or unusable
MaxFaults == 1

(***************************************************************************)
(* Python built-ins used by the code.                                      *)
(***************************************************************************)
None == <<>>

Truthy(v) == v # <<>>

StartsWith(s, prefix) ==
    /\ Len(s) >= Len(prefix)
    /\ SubSeq(s, 1, Len(prefix)) = prefix

\* str.replace: every non-overlapping occurrence, scanning from the left
RECURSIVE Replace(_, _, _)
Replace(s, old, new) ==
    IF Len(s) < Len(old) THEN s
    ELSE IF SubSeq(s, 1, Len(old)) = old
         THEN new \o Replace(SubSeq(s, Len(old) + 1, Len(s)), old, new)
         ELSE <<Head(s)>> \o Replace(Tail(s), old, new)

\* dict.get(key, default)
Get(data, key, default) == IF key \in DOMAIN data THEN data[key] ELSE default

Last(s) == s[Len(s)]

SeqToSet(s) == {s[i] : i \in 1..Len(s)}

(***************************************************************************)
(* Filesystem paths: sequences of components.                              *)
(***************************************************************************)
HomeDir == <<"C:", "Users", "me">>

Cwd == <<"C:", "work">>

IsAbsolute(p) == p # <<>> /\ Head(p) = "C:"

\* os.path.expanduser
expanduser(p) == IF p # <<>> /\ Head(p) = "~" THEN HomeDir \o Tail(p) ELSE p

\* os.path.abspath
abspath(p) == IF IsAbsolute(p) THEN p ELSE Cwd \o p

\* os.path.join(user_dir, ".wdm", "drivers", "chromedriver", "win64")
wdm_base == expanduser(<<"~">>) \o <<".wdm", "drivers", "chromedriver", "win64">>

\* the three fallback locations, in the order of the list
\* (a file name is its stem followed by its extension)
fallback_paths ==
    << <<"C:", "chromedriver", "chromedriver", ".exe">>,
       Cwd \o <<"chromedriver", ".exe">>,
       expanduser(<<"~">>) \o <<"chromedriver", ".exe">> >>

\* a file of the cache tree: its directories below wdm_base, the parts of
\* its name <<stem, ..., extension>>, and its modification time
EntryPath(e) == wdm_base \o e.dirs \o e.parts

\* wdm_base/*/**/chromedriver*.exe : at least one directory below wdm_base
MatchesNamed(e) ==
    /\ Len(e.dirs) >= 1
    /\ Head(e.parts) = "chromedriver"
    /\ Len(e.parts) >= 2
    /\ Last(e.parts) = ".exe"

\* wdm_base/*/**/*.exe
MatchesAnyExe(e) ==
    /\ Len(e.dirs) >= 1
    /\ Len(e.parts) >= 2
    /\ Last(e.parts) = ".exe"

SelectNamed(cch) == SelectSeq(cch, MatchesNamed)

SelectAnyExe(cch) == SelectSeq(cch, MatchesAnyExe)

\* os.path.isfile: a relative path is resolved against the working directory
isfile(p, fls, cch) ==
    abspath(p) \in fls \cup {EntryPath(cch[i]) : i \in 1..Len(cch)}

\* list.sort(key=getmtime, reverse=True): stable, equal keys keep their order
RECURSIVE InsertDesc(_, _)
InsertDesc(s, x) ==
    IF s = <<>> THEN <<x>>
    ELSE IF Head(s).mtime >= x.mtime
         THEN <<Head(s)>> \o InsertDesc(Tail(s), x)
         ELSE <<x>> \o s

\* the sort without reverse=True
RECURSIVE InsertAsc(_, _)
InsertAsc(s, x) ==
    IF s = <<>> THEN <<x>>
    ELSE IF Head(s).mtime <= x.mtime
         THEN <<Head(s)>> \o InsertAsc(Tail(s), x)
         ELSE <<x>> \o s

RECURSIVE SortByMtimeAsc(_)
SortByMtimeAsc(s) ==
    IF s = <<>> THEN <<>>
    ELSE InsertAsc(SortByMtimeAsc(SubSeq(s, 1, Len(s) - 1)), s[Len(s)])

RECURSIVE SortByMtimeDesc(_)
SortByMtimeDesc(s) ==
    IF s = <<>> THEN <<>>
    ELSE InsertDesc(SortByMtimeDesc(SubSeq(s, 1, Len(s) - 1)), Last(s))

RECURSIVE FirstFallback(_, _, _)
FirstFallback(fps, fls, cch) ==
    IF fps = <<>> THEN [step |-> "none", path |-> None]
    ELSE IF isfile(Head(fps), fls, cch)
         THEN [step |-> "fallback", path |-> abspath(Head(fps))]
         ELSE FirstFallback(Tail(fps), fls, cch)

\* the search looking into the cache before the override
find_cache_first(ov, fls, isdir, cch) ==
    IF isdir /\ SelectNamed(cch) # <<>>
    THEN [step |-> "named",
          path |-> abspath(EntryPath(Head(SortByMtimeDesc(SelectNamed(cch)))))]
    ELSE IF isdir /\ SelectAnyExe(cch) # <<>>
    THEN [step |-> "anyexe",
          path |-> abspath(EntryPath(Head(SortByMtimeDesc(SelectAnyExe(cch)))))]
    ELSE IF Truthy(ov) /\ isfile(expanduser(ov), fls, cch)
    THEN [step |-> "override", path |-> abspath(expanduser(ov))]
    ELSE FirstFallback(fallback_paths, fls, cch)

\* find_local_chromedriver: the path returned (None when nothing is found)
\* and the search step that returned it
find_local_chromedriver(ov, fls, isdir, cch) ==
    IF Truthy(ov) /\ isfile(expanduser(ov), fls, cch)
    THEN [step |-> "override", path |-> abspath(expanduser(ov))]
    ELSE IF isdir /\ SelectNamed(cch) # <<>>
    THEN [step |-> "named",
          path |-> abspath(EntryPath(Head(SortByMtimeDesc(SelectNamed(cch)))))]
    ELSE IF isdir /\ SelectAnyExe(cch) # <<>>
    THEN [step |-> "anyexe",
          path |-> abspath(EntryPath(Head(SortByMtimeDesc(SelectAnyExe(cch)))))]
    ELSE FirstFallback(fallback_paths, fls, cch)

(***************************************************************************)
(* The page as a step sees it: each element of the screen is "ok",         *)
(* "absent" (the lookup raises or times out), "broken" (found, but using   *)
(* it raises); a dropdown may also be "notselect" (its tag is not select)  *)
(* and the district dropdown "single" (it has at most one option).         *)
(***************************************************************************)
SHORT_WAIT == 10

LONG_WAIT == 60

NavEls == {"document", "body"}

LoginEls == {"loginEmail", "loginPassword", "submit"}

ServiceEls == {"service-card"}

Stage1Els == {"applyingFor", "applicationType", "bookletType", "nextBtn"}

Stage2Text == <<"givenName", "surname", "dob", "placeOfBirth">>

Stage2Selects == <<"gender", "maritalStatus", "citizenship", "employment", "education">>

Stage2Els == SeqToSet(Stage2Text) \cup SeqToSet(Stage2Selects) \cup {"nonECR", "nextBtn"}

Stage3Text == <<"fatherGivenName", "fatherSurname", "motherGivenName", "motherSurname">>

Stage3Els == SeqToSet(Stage3Text) \cup {"nextBtn"}

Stage4Text == <<"houseNo", "city", "pincode", "mobile", "email">>

Stage4Els ==
    SeqToSet(Stage4Text)
        \cup {"addressOutIndia", "state", "district", "permanentAddress", "nextBtn"}

Stage5Text == <<"emergencyName", "emergencyMobile", "emergencyAddress">>

Stage5Els == SeqToSet(Stage5Text) \cup {"nextBtn"}

Stage6Els == {"heldPassport", "nextBtn"}

Stage7Els == {"aliases", "nameChanged", "govServant", "nextBtn"}

Stage8Els == {"nextBtn"}

CaptchaEls == {"captchaCode"}

SubmitEls == {"captchaInput", "submitBtn", "refNumber"}

SelectEls == SeqToSet(Stage2Selects) \cup {"state"}

Faults(el) ==
    IF el \in SelectEls THEN {"absent", "broken", "notselect"}
    ELSE IF el = "district" THEN {"absent", "broken", "single"}
    ELSE {"absent", "broken"}

\* the screens with at most n elements that are not "ok"
Pages(els, n) ==
    UNION {
        {[e \in els |-> IF e \in S THEN k[e] ELSE "ok"] :
            k \in {f \in [S -> {"absent", "broken", "notselect", "single"}] :
                      \A e \in S : f[e] \in Faults(e)}} :
        S \in {T \in SUBSET els : Cardinality(T) <= n}}


\* the screens each step may meet
NavPages == [n \in 0..MaxFaults |-> Pages(NavEls, n)]

LoginPages == [n \in 0..MaxFaults |-> Pages(LoginEls, n)]

ServicePages == [n \in 0..MaxFaults |-> Pages(ServiceEls, n)]

Stage1Pages == [n \in 0..MaxFaults |-> Pages(Stage1Els, n)]

Stage2Pages == [n \in 0..MaxFaults |-> Pages(Stage2Els, n)]

Stage3Pages == [n \in 0..MaxFaults |-> Pages(Stage3Els, n)]

Stage4Pages == [n \in 0..MaxFaults |-> Pages(Stage4Els, n)]

Stage5Pages == [n \in 0..MaxFaults |-> Pages(Stage5Els, n)]

Stage6Pages == [n \in 0..MaxFaults |-> Pages(Stage6Els, n)]

Stage7Pages == [n \in 0..MaxFaults |-> Pages(Stage7Els, n)]

Stage8Pages == [n \in 0..MaxFaults |-> Pages(Stage8Els, n)]

CaptchaPages == [n \in 0..MaxFaults |-> Pages(CaptchaEls, n)]

SubmitPages == [n \in 0..MaxFaults |-> Pages(SubmitEls, n)]

(***************************************************************************)
(* A run of a method body: the browser interactions made so far and the    *)
(* exception raised, if any.  Once an exception is raised the remaining    *)
(* statements of the try block are skipped.                                *)
(***************************************************************************)
NoErr == [type |-> "None", el |-> ""]

Err(type, el) == [type |-> type, el |-> el]

Ev(op, el, arg) == [op |-> op, el |-> el, arg |-> arg, timeout |-> 0]

EvWait(op, el, t) == [op |-> op, el |-> el, arg |-> <<>>, timeout |-> t]

Begin == [log |-> <<>>, err |-> NoErr]

Failed(a) == a.err # NoErr

Do(a, ev) == [a EXCEPT !.log = Append(@, ev)]

Raise(a, ev, e) == [log |-> Append(a.log, ev), err |-> e]

\* try: body  except Exception: pass
Swallow(a, body) == IF Failed(a) THEN a ELSE [body EXCEPT !.err = NoErr]

\* driver.find_element(By..., el)
find_element(a, pg, el) ==
    IF Failed(a) THEN a
    ELSE IF pg[el] = "absent"
         THEN Raise(a, Ev("find_failed", el, <<>>), Err("NoSuchElementException", el))
         ELSE Do(a, Ev("find", el, <<>>))

\* WebDriverWait(driver, t).until(EC.presence_of_..._located(el))
wait_until_present(a, pg, el, t) ==
    IF Failed(a) THEN a
    ELSE IF pg[el] = "absent"
         THEN Raise(a, EvWait("wait_timeout", el, t), Err("TimeoutException", el))
         ELSE Do(a, EvWait("wait", el, t))

\* element.click()
click(a, pg, el) ==
    IF Failed(a) THEN a
    ELSE IF pg[el] = "broken"
         THEN Raise(a, Ev("click_failed", el, <<>>), Err("WebDriverException", el))
         ELSE Do(a, Ev("click", el, <<>>))

RECURSIVE send_each(_, _, _)
send_each(a, el, text) ==
    IF text = <<>> THEN a
    ELSE send_each(Do(a, Ev("send_keys", el, <<Head(text)>>)), el, Tail(text))

\* _type_slowly(element, text): clear, then one send_keys per character
type_slowly(a, pg, el, text) ==
    IF Failed(a) THEN a
    ELSE IF pg[el] = "broken"
         THEN Raise(a, Ev("clear_failed", el, <<>>), Err("WebDriverException", el))
         ELSE send_each(Do(a, Ev("clear", el, <<>>)), el, text)

\* Select(element).select_by_value(value)
select_by_value(a, pg, el, value) ==
    IF Failed(a) THEN a
    ELSE IF pg[el] # "ok"
         THEN Raise(a, Ev("select_failed", el, value), Err("WebDriverException", el))
         ELSE Do(a, Ev("select", el, value))

\* the loop without its "if data.get(field_id)"
RECURSIVE type_fields_unguarded(_, _, _, _)
type_fields_unguarded(a, pg, data, fields) ==
    IF fields = <<>> THEN a
    ELSE LET f == Head(fields)
             b == type_slowly(find_element(a, pg, f), pg, f, Get(data, f, None))
         IN  CHOOSE r \in {type_fields_unguarded(x, pg, data, Tail(fields)) : x \in {b}} :
                TRUE

\* for field_id in [...]: if data.get(field_id): find_element, _type_slowly
\* (x is the value of the run so far, handed to the next round)
RECURSIVE type_fields(_, _, _, _)
type_fields(a, pg, data, fields) ==
    IF fields = <<>> THEN a
    ELSE LET f == Head(fields)
             b == IF Truthy(Get(data, f, None))
                  THEN type_slowly(find_element(a, pg, f), pg, f, data[f])
                  ELSE a
         IN  CHOOSE r \in {type_fields(x, pg, data, Tail(fields)) : x \in {b}} : TRUE

(***************************************************************************)
(* The methods of PassportAutomation, as functions of the screen "pg" the  *)
(* method works on and of its arguments.                                   *)
(***************************************************************************)
\* start_browser launching Chrome before it looks for the driver
start_browser_launch_first(ov, fls, isdir, cch, launchOk) ==
    LET found == find_local_chromedriver(ov, fls, isdir, cch)
    IN  IF ~launchOk
        THEN [found |-> found, service |-> found.path, launched |-> FALSE,
              log |-> <<Ev("launch_failed", "chrome", <<>>)>>,
              err |-> Err("WebDriverException", "chrome")]
        ELSE IF ~Truthy(found.path)
        THEN [found |-> found, service |-> found.path, launched |-> TRUE,
              log |-> <<Ev("launch", "chrome", <<>>)>>,
              err |-> Err("FileNotFoundError", "chromedriver.exe")]
        ELSE [found |-> found, service |-> found.path, launched |-> TRUE,
              log |-> <<Ev("launch", "chrome", <<>>)>>, err |-> NoErr]

\* start_browser: driver_exe, then the session fields it sets.  "launchOk"
\* is whether webdriver.Chrome(...) succeeds.
start_browser(ov, fls, isdir, cch, launchOk) ==
    LET found == find_local_chromedriver(ov, fls, isdir, cch)
    IN  IF ~Truthy(found.path)
        THEN [found |-> found, service |-> None, launched |-> FALSE,
              log |-> <<>>, err |-> Err("FileNotFoundError", "chromedriver.exe")]
        ELSE IF ~isfile(found.path, fls, cch)
        THEN [found |-> found, service |-> None, launched |-> FALSE,
              log |-> <<>>, err |-> Err("FileNotFoundError", "chromedriver.exe")]
        ELSE IF ~launchOk
        THEN [found |-> found, service |-> found.path, launched |-> FALSE,
              log |-> <<Ev("launch_failed", "chrome", <<>>)>>,
              err |-> Err("WebDriverException", "chrome")]
        ELSE [found |-> found, service |-> found.path, launched |-> TRUE,
              log |-> <<Ev("launch", "chrome", <<>>)>>, err |-> NoErr]

FilePrefix == <<"f", "i", "l", "e", ":", "/", "/", "/">>

\* the local path navigate_to_website checks for a file:/// URL
local_path(url, sep) == Replace(Replace(url, FilePrefix, <<>>), <<"/">>, <<sep>>)

\* driver.get(url)
get(a, pg, url) ==
    IF Failed(a) THEN a
    ELSE IF pg["document"] # "ok"
         THEN Raise(a, Ev("get_failed", "document", url), Err("WebDriverException", "document"))
         ELSE Do(a, Ev("get", "document", url))

\* navigate_to_website checking the file only after the load
navigate_then_check(url, sep, html, pg) ==
    LET a == wait_until_present(get(Begin, pg, url), pg, "body", SHORT_WAIT)
    IN  IF ~Failed(a) /\ StartsWith(url, FilePrefix) /\ local_path(url, sep) \notin html
        THEN [log |-> a.log, err |-> Err("FileNotFoundError", "website_file")]
        ELSE a

\* navigate_to_website; "html" is the set of local paths that are files
navigate_to_website(url, sep, html, pg) ==
    IF StartsWith(url, FilePrefix) /\ local_path(url, sep) \notin html
    THEN [log |-> <<>>, err |-> Err("FileNotFoundError", "website_file")]
    ELSE wait_until_present(get(Begin, pg, url), pg, "body", SHORT_WAIT)

login(pg, email, password) ==
    LET a1 == wait_until_present(Begin, pg, "loginEmail", SHORT_WAIT)
        a2 == find_element(a1, pg, "loginPassword")
        a3 == find_element(a2, pg, "submit")
        a4 == type_slowly(a3, pg, "loginEmail", email)
        a5 == type_slowly(a4, pg, "loginPassword", password)
    IN  click(a5, pg, "submit")

start_fresh_passport_application(pg) ==
    click(wait_until_present(Begin, pg, "service-card", SHORT_WAIT), pg, "service-card")

find_and_click(a, pg, el) == click(find_element(a, pg, el), pg, el)

fill_stage1_passport_type(pg) ==
    LET a1 == find_and_click(Begin, pg, "applyingFor")
        a2 == find_and_click(a1, pg, "applicationType")
        a3 == find_and_click(a2, pg, "bookletType")
    IN  find_and_click(a3, pg, "nextBtn")

Male == <<"Male">>

Single == <<"Single">>

Birth == <<"Birth">>

Private == <<"Private">>

Graduate == <<"Graduate And Above">>

\* the defaults of the "selects" dictionary of stage 2
SelectDefault(sel_id) ==
    CASE sel_id = "gender" -> Male
      [] sel_id = "maritalStatus" -> Single
      [] sel_id = "citizenship" -> Birth
      [] sel_id = "employment" -> Private
      [] sel_id = "education" -> Graduate

\* the round without its try ... except
select_one_uncaught(a, pg, sel_id, sel_val) ==
    LET f == find_element(a, pg, sel_id)
    IN  IF ~Failed(f) /\ pg[sel_id] # "notselect"
        THEN select_by_value(f, pg, sel_id, sel_val)
        ELSE f

\* one round of "for sel_id, sel_val in selects.items()"
select_one(a, pg, sel_id, sel_val) ==
    Swallow(a,
        LET f == find_element(a, pg, sel_id)
        IN  IF ~Failed(f) /\ pg[sel_id] # "notselect"
            THEN select_by_value(f, pg, sel_id, sel_val)
            ELSE f)

RECURSIVE select_all(_, _, _, _)
select_all(a, pg, data, sels) ==
    IF sels = <<>> THEN a
    ELSE CHOOSE r \in
            {select_all(x, pg, data, Tail(sels)) :
                x \in {select_one(a, pg, Head(sels),
                                  Get(data, Head(sels), SelectDefault(Head(sels))))}} : TRUE

fill_stage2_applicant_details(pg, data) ==
    LET a1 == type_fields(Begin, pg, data, Stage2Text)
        a2 == select_all(a1, pg, data, Stage2Selects)
        a3 == Swallow(a2, find_and_click(a2, pg, "nonECR"))
    IN  find_and_click(a3, pg, "nextBtn")

fill_stage3_family_details(pg, data) ==
    find_and_click(type_fields(Begin, pg, data, Stage3Text), pg, "nextBtn")

\* Select(find_element("district")), then select_by_index(1) when it has
\* more than one option
select_district(a, pg) ==
    Swallow(a,
        LET f == find_element(a, pg, "district")
        IN  IF Failed(f) THEN f
            ELSE IF pg["district"] = "broken"
            THEN Raise(f, Ev("select_failed", "district", <<>>),
                       Err("WebDriverException", "district"))
            ELSE IF pg["district"] = "single" THEN f
            ELSE Do(f, Ev("select_index", "district", <<>>)))

select_state(a, pg, data) ==
    Swallow(a,
        LET f == find_element(a, pg, "state")
        IN  IF ~Failed(f) /\ pg["state"] # "notselect" /\ Truthy(Get(data, "state", None))
            THEN select_district(select_by_value(f, pg, "state", data["state"]), pg)
            ELSE f)

fill_stage4_address_details(pg, data) ==
    LET a1 == Swallow(Begin, find_and_click(Begin, pg, "addressOutIndia"))
        a2 == type_fields(a1, pg, data, Stage4Text)
        a3 == select_state(a2, pg, data)
        a4 == Swallow(a3, find_and_click(a3, pg, "permanentAddress"))
    IN  find_and_click(a4, pg, "nextBtn")

fill_stage5_emergency_contact(pg, data) ==
    find_and_click(type_fields(Begin, pg, data, Stage5Text), pg, "nextBtn")

fill_stage6_previous_passport(pg) ==
    find_and_click(Swallow(Begin, find_and_click(Begin, pg, "heldPassport")), pg, "nextBtn")

fill_stage7_other_details(pg) ==
    LET a1 == Swallow(Begin,
                  find_and_click(
                      find_and_click(find_and_click(Begin, pg, "aliases"), pg, "nameChanged"),
                      pg, "govServant"))
    IN  find_and_click(a1, pg, "nextBtn")

navigate_stage8_preview(pg) == find_and_click(Begin, pg, "nextBtn")

\* el.text
read_text(a, pg, el, text) ==
    IF Failed(a) THEN a
    ELSE IF pg[el] = "broken"
         THEN Raise(a, Ev("text_failed", el, <<>>), Err("WebDriverException", el))
         ELSE Do(a, Ev("text", el, text))

\* get_captcha_and_wait: "text" is what the captchaCode element shows.
\* code is the value stored in self.captcha_code, ret the value returned.
get_captcha_and_wait(pg, text, old_code) ==
    LET a == read_text(wait_until_present(Begin, pg, "captchaCode", LONG_WAIT),
                       pg, "captchaCode", text)
    IN  IF Failed(a)
        THEN [log |-> a.log, err |-> a.err, code |-> old_code, ret |-> None]
        ELSE [log |-> a.log, err |-> NoErr, code |-> <<text>>, ret |-> <<text>>]

\* submit_with_captcha without the try around the reference number
submit_ref_uncaught(pg, captcha_solution, reftext) ==
    LET a1 == find_element(Begin, pg, "captchaInput")
        a3 == type_slowly(a1, pg, "captchaInput", captcha_solution)
        a4 == find_and_click(a3, pg, "submitBtn")
        r  == read_text(find_element(a4, pg, "refNumber"), pg, "refNumber", reftext)
    IN  IF Failed(r) THEN [log |-> r.log, err |-> r.err, ret |-> None]
        ELSE [log |-> r.log, err |-> NoErr, ret |-> <<reftext>>]

\* submit_with_captcha: "reftext" is what the refNumber element shows
submit_with_captcha(pg, captcha_solution, reftext) ==
    LET a1 == find_element(Begin, pg, "captchaInput")
        a2 == IF Failed(a1) THEN a1
              ELSE IF pg["captchaInput"] = "broken"
              THEN Raise(a1, Ev("clear_failed", "captchaInput", <<>>),
                         Err("WebDriverException", "captchaInput"))
              ELSE Do(a1, Ev("clear", "captchaInput", <<>>))
        a3 == type_slowly(a2, pg, "captchaInput", captcha_solution)
        a4 == find_and_click(a3, pg, "submitBtn")
        r  == read_text(find_element(a4, pg, "refNumber"), pg, "refNumber", reftext)
    IN  IF Failed(a4) THEN [log |-> a4.log, err |-> a4.err, ret |-> None]
        ELSE IF Failed(r) THEN [log |-> r.log, err |-> NoErr, ret |-> None]
        ELSE [log |-> r.log, err |-> NoErr, ret |-> <<reftext>>]

\* close_browser with try ... finally but no except clause
close_browser_uncaught(drv, quitOk) ==
    IF drv # "None"
    THEN LET a == IF quitOk THEN Do(Begin, Ev("quit", "chrome", <<>>))
                  ELSE Raise(Begin, Ev("quit_failed", "chrome", <<>>),
                             Err("WebDriverException", "chrome"))
         IN  [driver |-> "None", log |-> a.log, err |-> a.err]
    ELSE [driver |-> drv, log |-> <<>>, err |-> NoErr]

\* close_browser on a session whose handle is drv; "quitOk" is whether
\* driver.quit() succeeds
close_browser(drv, quitOk) ==
    IF drv # "None"
    THEN LET a == Swallow(Begin,
                      IF quitOk THEN Do(Begin, Ev("quit", "chrome", <<>>))
                      ELSE Raise(Begin, Ev("quit_failed", "chrome", <<>>),
                                 Err("WebDriverException", "chrome")))
         IN  [driver |-> "None", log |-> a.log, err |-> a.err]
    ELSE [driver |-> drv, log |-> <<>>, err |-> NoErr]

(***************************************************************************)
(* State.                                                                  *)
(***************************************************************************)
VARIABLES
    driver_path_override,   \* the configured override path, None when unset
    files,                  \* absolute paths that are regular files
    wdm_isdir,              \* whether wdm_base is a directory
    cache,                  \* the files below wdm_base, in glob's listing order
    os_sep,                 \* os.sep
    html_files,             \* local paths (as navigate computes them) that are files
    website_url,            \* self.website_url
    driver,                 \* self.driver: "None" or "webdriver"
    wait,                   \* self.wait: None or <<timeout>>
    captcha_code,           \* self.captcha_code: None or <<text>>
    service,                \* self._service: None or the driver path
    browser,                \* the browser process: "none", "running", "closed"
    user_data,              \* the applicant record passed to automate_fresh_passport
    stop_at_captcha,        \* the flag passed to automate_fresh_passport
    page,                   \* the screen the last step worked on
    log,                    \* the browser interactions of the last step
    pc,                     \* the next statement of the flow
    calls,                  \* the methods automate_fresh_passport has invoked
    step_err,               \* the exception raised by the failing step
    exc,                    \* the exception propagating out to the caller
    outcome,                \* automate_fresh_passport: "running", "returned", "raised"
    ret,                    \* its return value: None or <<text>>
    ref,                    \* submit_with_captcha's progress and return value
    found,                  \* the result of find_local_chromedriver
    close_err               \* the exception the last close_browser call raised

vars ==
    <<driver_path_override, files, wdm_isdir, cache, os_sep, html_files,
      website_url, driver, wait, captcha_code, service, browser, user_data,
      stop_at_captcha, page, log, pc, calls, step_err, exc, outcome, ret, ref,
      found, close_err>>

fs_vars == <<driver_path_override, files, wdm_isdir, cache>>

url_vars == <<os_sep, html_files, website_url>>

arg_vars == <<user_data, stop_at_captcha>>

(***************************************************************************)
(* Inputs.                                                                 *)
(***************************************************************************)
\* the applicant record with every field set
FullRecord ==
    [f \in SeqToSet(Stage2Text) \cup SeqToSet(Stage3Text) \cup SeqToSet(Stage4Text)
            \cup SeqToSet(Stage5Text) \cup SeqToSet(Stage2Selects)
            \cup {"state", "password"} |->
        CASE f = "gender" -> <<"Female">>
          [] f = "maritalStatus" -> <<"Married">>
          [] f = "citizenship" -> <<"Descent">>
          [] f = "employment" -> <<"Government">>
          [] f = "education" -> <<"10th Pass">>
          [] f = "state" -> <<"AP">>
          [] OTHER -> <<"a", "b">>]

\* the fields of a record that are absent or empty
Missing(data) == {f \in DOMAIN FullRecord : ~Truthy(Get(data, f, None))}

\* the records with at most MaxFaults fields absent or empty
Records ==
    UNION {
        {[f \in DOMAIN FullRecord \ A |-> IF f \in S THEN <<>> ELSE FullRecord[f]] :
            A \in SUBSET S} :
        S \in {T \in SUBSET DOMAIN FullRecord : Cardinality(T) <= MaxFaults}}

\* the faults a screen may still show to a step working with this record
Budget(data) == MaxFaults - Cardinality(Missing(data))

DefaultEmail == <<"t", "@">>

DefaultPassword == <<"p", "w">>

\* what the page shows as CAPTCHA and as reference number
PageTexts == {<<>>, <<"X", "7">>}

\* what the person types at the prompt
ConsoleInputs == {<<>>, <<"X", "7">>, <<" ", "X", "7", " ">>}

\* str.strip
RECURSIVE lstrip(_)
lstrip(s) == IF s # <<>> /\ Head(s) = " " THEN lstrip(Tail(s)) ELSE s

RECURSIVE rstrip(_)
rstrip(s) == IF s # <<>> /\ Last(s) = " " THEN rstrip(SubSeq(s, 1, Len(s) - 1)) ELSE s

strip(s) == rstrip(lstrip(s))

\* the files a cache tree may hold
CacheFiles ==
    { [dirs |-> <<"v1">>, parts |-> <<"chromedriver", ".exe">>],
      [dirs |-> <<"v2", "sub">>, parts |-> <<"chromedriver", "-old", ".exe">>],
      [dirs |-> <<"v1">>, parts |-> <<"tool", ".exe">>],
      [dirs |-> <<"v2">>, parts |-> <<"helper", ".exe">>],
      [dirs |-> <<>>, parts |-> <<"chromedriver", ".exe">>] }

TimedCacheFiles ==
    {[dirs |-> e.dirs, parts |-> e.parts, mtime |-> t] : e \in CacheFiles, t \in 1..MaxMtime}

\* the listings of at most MaxCand distinct files
Caches ==
    UNION {
        {s \in [1..n -> TimedCacheFiles] :
            \A i, j \in 1..n : i # j => EntryPath(s[i]) # EntryPath(s[j])} :
        n \in 0..MaxCand}

Overrides == {None, <<"~", "drv", ".exe">>, <<"chromedriver", ".exe">>}

PlainFiles == {abspath(expanduser(<<"~", "drv", ".exe">>))} \cup SeqToSet(fallback_paths)

Slash == "/"

Backslash == "\\"

WebsiteFile == FilePrefix \o <<"C", ":", "/", "m", ".", "h">>

Urls ==
    { WebsiteFile,
      FilePrefix \o <<"m", ".", "h">>,
      FilePrefix \o <<"C", ":", "/">> \o FilePrefix \o <<"m", ".", "h">>,
      <<"f", "i", "l", "e", ":", "/", "/", "m", ".", "h">>,
      <<"F", "I", "L", "E", ":", "/", "/", "/", "m", ".", "h">>,
      <<"h", "t", "t", "p", ":", "/", "/", "m", ".", "h">> }

LocalFiles(sep) == {<<"m", ".", "h">>, <<"C", ":", sep, "m", ".", "h">>}

(***************************************************************************)
(* Init: the object as __init__ leaves it, about to run                    *)
(* automate_fresh_passport with the configured override (None).            *)
(***************************************************************************)
SessionInit ==
    /\ driver = "None"
    /\ wait = None
    /\ captcha_code = None
    /\ service = None
    /\ browser = "none"
    /\ page = [e \in {} |-> "ok"]
    /\ log = <<>>
    /\ calls = <<>>
    /\ step_err = NoErr
    /\ exc = NoErr
    /\ ret = None
    /\ ref = [state |-> "idle", value |-> None]
    /\ found = [step |-> "none", path |-> None]
    /\ close_err = NoErr

Init ==
    /\ SessionInit
    /\ driver_path_override = None
    /\ \E fs \in { [files |-> {}, isdir |-> FALSE, cache |-> <<>>],
                   [files |-> {}, isdir |-> TRUE,
                    cache |-> <<[dirs |-> <<"v1">>, parts |-> <<"chromedriver", ".exe">>,
                                 mtime |-> 1]>>],
                   [files |-> {fallback_paths[1]}, isdir |-> FALSE, cache |-> <<>>] } :
          /\ files = fs.files
          /\ wdm_isdir = fs.isdir
          /\ cache = fs.cache
    /\ os_sep = Backslash
    /\ website_url = WebsiteFile
    /\ html_files \in SUBSET {local_path(WebsiteFile, Backslash)}
    /\ user_data \in Records
    /\ stop_at_captcha \in BOOLEAN
    /\ outcome = "running"
    /\ pc = "start_browser"

(***************************************************************************)
(* automate_fresh_passport: one action per statement of its try block.     *)
(* A step that raises hands over to the except clause (pc = "except").     *)
(***************************************************************************)
\* the bookkeeping common to the steps: r is the run of the method body
Step(name, pg, r, next) ==
    /\ page' = pg
    /\ log' = r.log
    /\ calls' = Append(calls, name)
    /\ step_err' = r.err
    /\ pc' = IF r.err # NoErr THEN "except" ELSE next

StartBrowser ==
    /\ pc = "start_browser"
    /\ \E launchOk \in BOOLEAN :
          LET r == start_browser(driver_path_override, files, wdm_isdir, cache, launchOk)
          IN  /\ found' = r.found
              /\ service' = r.service
              /\ driver' = IF r.launched THEN "webdriver" ELSE driver
              /\ wait' = IF r.launched THEN <<SHORT_WAIT>> ELSE wait
              /\ browser' = IF r.launched THEN "running" ELSE browser
              /\ Step("start_browser", page, r, "navigate_to_website")
    /\ UNCHANGED <<fs_vars, url_vars, arg_vars, captcha_code, exc, outcome, ret, ref,
                   close_err>>

session_vars == <<driver, wait, service, browser, found, close_err>>

NavigateToWebsite ==
    /\ pc = "navigate_to_website"
    /\ \E pg \in NavPages[Budget(user_data)] :
          Step("navigate_to_website", pg,
               navigate_to_website(website_url, os_sep, html_files, pg), "login")
    /\ UNCHANGED <<fs_vars, url_vars, arg_vars, session_vars, captcha_code, exc,
                   outcome, ret, ref>>

\* login followed directly by stage 1
LoginThenStage1 ==
    /\ pc = "login"
    /\ \E pg \in LoginPages[Budget(user_data)] :
          Step("login", pg,
               login(pg, Get(user_data, "email", DefaultEmail),
                     Get(user_data, "password", DefaultPassword)),
               "fill_stage1_passport_type")
    /\ UNCHANGED <<fs_vars, url_vars, arg_vars, session_vars, captcha_code, exc,
                   outcome, ret, ref>>

Login ==
    /\ pc = "login"
    /\ \E pg \in LoginPages[Budget(user_data)] :
          Step("login", pg,
               login(pg, Get(user_data, "email", DefaultEmail),
                     Get(user_data, "password", DefaultPassword)),
               "start_fresh_passport_application")
    /\ UNCHANGED <<fs_vars, url_vars, arg_vars, session_vars, captcha_code, exc,
                   outcome, ret, ref>>

StartFreshPassportApplication ==
    /\ pc = "start_fresh_passport_application"
    /\ \E pg \in ServicePages[Budget(user_data)] :
          Step("start_fresh_passport_application", pg,
               start_fresh_passport_application(pg), "fill_stage1_passport_type")
    /\ UNCHANGED <<fs_vars, url_vars, arg_vars, session_vars, captcha_code, exc,
                   outcome, ret, ref>>

FillStage1 ==
    /\ pc = "fill_stage1_passport_type"
    /\ \E pg \in Stage1Pages[Budget(user_data)] :
          Step("fill_stage1_passport_type", pg,
               fill_stage1_passport_type(pg), "fill_stage2_applicant_details")
    /\ UNCHANGED <<fs_vars, url_vars, arg_vars, session_vars, captcha_code, exc,
                   outcome, ret, ref>>

FillStage2 ==
    /\ pc = "fill_stage2_applicant_details"
    /\ \E pg \in Stage2Pages[Budget(user_data)] :
          Step("fill_stage2_applicant_details", pg,
               fill_stage2_applicant_details(pg, user_data), "fill_stage3_family_details")
    /\ UNCHANGED <<fs_vars, url_vars, arg_vars, session_vars, captcha_code, exc,
                   outcome, ret, ref>>

FillStage3 ==
    /\ pc = "fill_stage3_family_details"
    /\ \E pg \in Stage3Pages[Budget(user_data)] :
          Step("fill_stage3_family_details", pg,
               fill_stage3_family_details(pg, user_data), "fill_stage4_address_details")
    /\ UNCHANGED <<fs_vars, url_vars, arg_vars, session_vars, captcha_code, exc,
                   outcome, ret, ref>>

FillStage4 ==
    /\ pc = "fill_stage4_address_details"
    /\ \E pg \in Stage4Pages[Budget(user_data)] :
          Step("fill_stage4_address_details", pg,
               fill_stage4_address_details(pg, user_data), "fill_stage5_emergency_contact")
    /\ UNCHANGED <<fs_vars, url_vars, arg_vars, session_vars, captcha_code, exc,
                   outcome, ret, ref>>

FillStage5 ==
    /\ pc = "fill_stage5_emergency_contact"
    /\ \E pg \in Stage5Pages[Budget(user_data)] :
          Step("fill_stage5_emergency_contact", pg,
               fill_stage5_emergency_contact(pg, user_data), "fill_stage6_previous_passport")
    /\ UNCHANGED <<fs_vars, url_vars, arg_vars, session_vars, captcha_code, exc,
                   outcome, ret, ref>>

FillStage6 ==
    /\ pc = "fill_stage6_previous_passport"
    /\ \E pg \in Stage6Pages[Budget(user_data)] :
          Step("fill_stage6_previous_passport", pg,
               fill_stage6_previous_passport(pg), "fill_stage7_other_details")
    /\ UNCHANGED <<fs_vars, url_vars, arg_vars, session_vars, captcha_code, exc,
                   outcome, ret, ref>>

FillStage7 ==
    /\ pc = "fill_stage7_other_details"
    /\ \E pg \in Stage7Pages[Budget(user_data)] :
          Step("fill_stage7_other_details", pg,
               fill_stage7_other_details(pg), "navigate_stage8_preview")
    /\ UNCHANGED <<fs_vars, url_vars, arg_vars, session_vars, captcha_code, exc,
                   outcome, ret, ref>>

NavigateStage8 ==
    /\ pc = "navigate_stage8_preview"
    /\ \E pg \in Stage8Pages[Budget(user_data)] :
          Step("navigate_stage8_preview", pg,
               navigate_stage8_preview(pg), "get_captcha_and_wait")
    /\ UNCHANGED <<fs_vars, url_vars, arg_vars, session_vars, captcha_code, exc,
                   outcome, ret, ref>>

\* captcha = self.get_captcha_and_wait(); if stop_at_captcha: return captcha
\* (otherwise the function ends and returns None)
GetCaptchaAndWait ==
    /\ pc = "get_captcha_and_wait"
    /\ \E pg \in CaptchaPages[Budget(user_data)], text \in PageTexts :
          LET r == get_captcha_and_wait(pg, text, captcha_code)
          IN  /\ Step("get_captcha_and_wait", pg, r, "main_if_captcha")
              /\ captcha_code' = r.code
              /\ outcome' = IF r.err # NoErr THEN outcome ELSE "returned"
              /\ ret' = IF r.err = NoErr /\ stop_at_captcha THEN r.ret ELSE None
    /\ UNCHANGED <<fs_vars, url_vars, arg_vars, session_vars, exc, ref>>

\* the except clause without its close_browser call
ExceptWithoutClose ==
    /\ pc = "except"
    /\ exc' = step_err
    /\ calls' = calls
    /\ outcome' = "raised"
    /\ pc' = "finally"
    /\ UNCHANGED <<fs_vars, url_vars, arg_vars, session_vars, captcha_code, page, log,
                   step_err, ret, ref>>

\* except Exception as e: self.close_browser(); raise
Except ==
    /\ pc = "except"
    /\ \E quitOk \in BOOLEAN :
          LET cb == close_browser(driver, quitOk)
          IN  /\ driver' = cb.driver
              /\ log' = cb.log
              /\ close_err' = cb.err
              /\ browser' = IF driver # "None" /\ quitOk THEN "closed" ELSE browser
              /\ exc' = IF cb.err # NoErr THEN cb.err ELSE step_err
    /\ calls' = Append(calls, "close_browser")
    /\ outcome' = "raised"
    /\ pc' = "finally"
    /\ UNCHANGED <<fs_vars, url_vars, arg_vars, wait, service, found, captcha_code,
                   page, step_err, ret, ref>>

(***************************************************************************)
(* The script's top-level flow around the call.                            *)
(***************************************************************************)
\* if captcha_code: input(...).strip(), submit_with_captcha(user_input)
MainSubmit ==
    /\ pc = "main_if_captcha"
    /\ ret # None
    /\ Truthy(ret[1])
    /\ \E typed \in ConsoleInputs, pg \in SubmitPages[Budget(user_data)], reftext \in PageTexts :
          LET r == submit_with_captcha(pg, strip(typed), reftext)
          IN  /\ page' = pg
              /\ log' = r.log
              /\ exc' = r.err
              /\ ref' = [state |-> IF r.err # NoErr THEN "raised" ELSE "returned",
                         value |-> r.ret]
    /\ pc' = "finally"
    /\ UNCHANGED <<fs_vars, url_vars, arg_vars, session_vars, captcha_code, calls,
                   step_err, outcome, ret>>

MainSkip ==
    /\ pc = "main_if_captcha"
    /\ ~(ret # None /\ Truthy(ret[1]))
    /\ pc' = "finally"
    /\ UNCHANGED <<fs_vars, url_vars, arg_vars, session_vars, captcha_code, calls,
                   step_err, outcome, ret, page, log, exc, ref>>

\* input("CAPTCHA > ") finds the console closed: EOFError, nothing is submitted
MainInputFails ==
    /\ pc = "main_if_captcha"
    /\ ret # None
    /\ Truthy(ret[1])
    /\ exc' = Err("EOFError", "input")
    /\ pc' = "finally"
    /\ UNCHANGED <<fs_vars, url_vars, arg_vars, session_vars, captcha_code, calls,
                   step_err, outcome, ret, page, log, ref>>

\* the script ending without its finally clause
FinallyWithoutClose ==
    /\ pc = "finally"
    /\ pc' = "done"
    /\ UNCHANGED <<fs_vars, url_vars, arg_vars, session_vars, captcha_code, page, log,
                   calls, step_err, exc, outcome, ret, ref>>

\* finally: automation.close_browser()
Finally ==
    /\ pc = "finally"
    /\ \E quitOk \in BOOLEAN :
          LET cb == close_browser(driver, quitOk)
          IN  /\ driver' = cb.driver
              /\ log' = cb.log
              /\ close_err' = cb.err
              /\ browser' = IF driver # "None" /\ quitOk THEN "closed" ELSE browser
              /\ exc' = IF cb.err # NoErr THEN cb.err ELSE exc
    /\ pc' = "done"
    /\ UNCHANGED <<fs_vars, url_vars, arg_vars, wait, service, found, captcha_code,
                   page, calls, step_err, outcome, ret, ref>>

Next ==
    \/ StartBrowser
    \/ NavigateToWebsite
    \/ Login
    \/ StartFreshPassportApplication
    \/ FillStage1
    \/ FillStage2
    \/ FillStage3
    \/ FillStage4
    \/ FillStage5
    \/ FillStage6
    \/ FillStage7
    \/ NavigateStage8
    \/ GetCaptchaAndWait
    \/ Except
    \/ MainSubmit
    \/ MainSkip
    \/ MainInputFails
    \/ Finally

Spec == Init /\ [][Next]_vars

(***************************************************************************)
(* The script run as a program: it passes its complete sample record and   *)
(* stop_at_captcha=True.  The script is one sequential thread: the         *)
(* statement it has reached is executed.  Every wait on the page is        *)
(* bounded (SHORT_WAIT, LONG_WAIT), every sleep is finite, and the prompt  *)
(* is answered or the console closed, so no statement blocks for ever.     *)
(***************************************************************************)
LiveInit ==
    /\ Init
    /\ user_data = FullRecord
    /\ stop_at_captcha = TRUE

Fairness == WF_vars(Next)

LiveSpec == LiveInit /\ [][Next]_vars /\ Fairness

(***************************************************************************)
(* The same flow over the URLs and local files navigate_to_website may     *)
(* meet, with a driver in the cache and a complete record.                 *)
(***************************************************************************)
NavInit ==
    /\ SessionInit
    /\ driver_path_override = None
    /\ files = {}
    /\ wdm_isdir = TRUE
    /\ cache = <<[dirs |-> <<"v1">>, parts |-> <<"chromedriver", ".exe">>, mtime |-> 1]>>
    /\ os_sep \in {Slash, Backslash}
    /\ website_url \in Urls
    /\ html_files \in SUBSET LocalFiles(os_sep)
    /\ user_data = FullRecord
    /\ stop_at_captcha = TRUE
    /\ outcome = "running"
    /\ pc = "start_browser"

NavSpec == NavInit /\ [][Next]_vars

(***************************************************************************)
(* find_local_chromedriver on its own, over the overrides, plain files and *)
(* cache listings it may meet.                                             *)
(***************************************************************************)
FinderInit ==
    /\ SessionInit
    /\ driver_path_override \in Overrides
    /\ files \in SUBSET PlainFiles
    /\ wdm_isdir \in BOOLEAN
    /\ cache \in IF wdm_isdir THEN Caches ELSE {<<>>}
    /\ os_sep = Backslash
    /\ website_url = WebsiteFile
    /\ html_files = {}
    /\ user_data = FullRecord
    /\ stop_at_captcha = TRUE
    /\ outcome = "running"
    /\ pc = "find_local_chromedriver"

FindLocalChromedriver ==
    /\ pc = "find_local_chromedriver"
    /\ found' = find_local_chromedriver(driver_path_override, files, wdm_isdir, cache)
    /\ pc' = "found"
    /\ UNCHANGED <<fs_vars, url_vars, arg_vars, driver, wait, captcha_code, service,
                   browser, page, log, calls, step_err, exc, outcome, ret, ref,
                   close_err>>

FinderNext == FindLocalChromedriver

FinderSpec == FinderInit /\ [][FinderNext]_vars

(***************************************************************************)
(* Properties.                                                             *)
(***************************************************************************)
IsChainStep(c) == c # "close_browser"

\* C1: in automate_fresh_passport a step that raises hands over to the
\* except clause at once; the except clause runs close_browser, leaves
\* driver = None and re-raises the step's own exception; and after a step has
\* raised no further step of the chain (nor submit) runs.
C1_FailureClosesAndReraises ==
    [][ /\ (step_err = NoErr /\ step_err' # NoErr) =>
                (pc' = "except" /\ outcome' = "running")
        /\ pc = "except" =>
                /\ step_err # NoErr
                /\ calls' = Append(calls, "close_browser")
                /\ driver' = "None"
                /\ exc' = step_err
                /\ outcome' = "raised"
                /\ pc' = "finally"
        /\ (step_err # NoErr /\ pc # "except") =>
                /\ calls' = calls
                /\ step_err' = step_err
                /\ exc' = exc
                /\ ref' = ref
                /\ driver' = "None"
                /\ outcome' = "raised"
      ]_vars

\* C1 witness: stage 3 raised on the missing "nextBtn", the browser was shut
\* down, the handle is cleared and the error reached the caller.
C1_Witness ==
    /\ outcome = "raised"
    /\ step_err = Err("NoSuchElementException", "nextBtn")
    /\ exc = step_err
    /\ calls = <<"start_browser", "navigate_to_website", "login",
                 "start_fresh_passport_application", "fill_stage1_passport_type",
                 "fill_stage2_applicant_details", "fill_stage3_family_details",
                 "close_browser">>
    /\ driver = "None"
    /\ browser = "closed"

ExpectedOrder ==
    <<"start_browser", "navigate_to_website", "login",
      "start_fresh_passport_application", "fill_stage1_passport_type",
      "fill_stage2_applicant_details", "fill_stage3_family_details",
      "fill_stage4_address_details", "fill_stage5_emergency_contact",
      "fill_stage6_previous_passport", "fill_stage7_other_details",
      "navigate_stage8_preview", "get_captcha_and_wait">>

\* C2: the steps invoked so far are always an initial part of the fixed
\* order, each once; a step is about to run only when all earlier ones have
\* run without error; and when all thirteen completed with stop_at_captcha
\* true the value returned is the text read from the captchaCode element and
\* equals self.captcha_code.
C2_FixedOrderAndResult ==
    LET steps == SelectSeq(calls, IsChainStep)
    IN  /\ Len(steps) <= Len(ExpectedOrder)
        /\ steps = SubSeq(ExpectedOrder, 1, Len(steps))
        /\ \A i \in 1..Len(ExpectedOrder) :
              pc = ExpectedOrder[i] =>
                  (calls = SubSeq(ExpectedOrder, 1, i - 1) /\ step_err = NoErr)
        /\ outcome = "returned" =>
              /\ steps = ExpectedOrder
              /\ step_err = NoErr
              /\ captcha_code # None
              /\ stop_at_captcha => ret = captcha_code
              /\ pc = "main_if_captcha" =>
                    (Last(log).op = "text" /\ Last(log).el = "captchaCode"
                        /\ captcha_code = <<Last(log).arg>>)

\* C2 witness: the whole chain has run and returned the CAPTCHA "X7".
C2_Witness ==
    /\ pc = "main_if_captcha"
    /\ outcome = "returned"
    /\ stop_at_captcha
    /\ calls = ExpectedOrder
    /\ ret = << <<"X", "7">> >>
    /\ captcha_code = ret

DataStages ==
    {"fill_stage1_passport_type", "fill_stage2_applicant_details",
     "fill_stage3_family_details", "fill_stage4_address_details",
     "fill_stage5_emergency_contact", "fill_stage6_previous_passport",
     "fill_stage7_other_details"}

\* the state right after a data-entry stage has run
AfterDataStage == calls # <<>> /\ Last(calls) \in DataStages

IsFailure(ev) ==
    ev.op \in {"find_failed", "click_failed", "clear_failed", "select_failed",
               "text_failed", "wait_timeout", "get_failed"}

Touched(el) == \E i \in DOMAIN log : log[i].el = el

HasNoValue(f) == ~Truthy(Get(user_data, f, None))

StageTextOf(st) ==
    CASE st = "fill_stage2_applicant_details" -> SeqToSet(Stage2Text)
      [] st = "fill_stage3_family_details" -> SeqToSet(Stage3Text)
      [] st = "fill_stage4_address_details" -> SeqToSet(Stage4Text)
      [] st = "fill_stage5_emergency_contact" -> SeqToSet(Stage5Text)
      [] OTHER -> {}

\* the elements whose failure is not caught inside the stage
UncaughtEls(st) ==
    {"nextBtn"}
        \cup (IF st = "fill_stage1_passport_type"
              THEN {"applyingFor", "applicationType", "bookletType"} ELSE {})
        \cup {f \in StageTextOf(st) : ~HasNoValue(f)}

\* the elements used inside a try ... except Exception: pass
CaughtEls ==
    SeqToSet(Stage2Selects)
        \cup {"nonECR", "addressOutIndia", "state", "district", "permanentAddress",
              "heldPassport", "aliases", "nameChanged", "govServant"}

\* C3 as stated: in stages 1 to 7 every failure on an element other than
\* "nextBtn" is swallowed and the stage goes on to the "next" control; only a
\* failure on "nextBtn" propagates.
C3_Original ==
    AfterDataStage =>
        /\ step_err # NoErr => step_err.el = "nextBtn"
        /\ \A i \in DOMAIN log :
              (IsFailure(log[i]) /\ log[i].el # "nextBtn") =>
                  \E j \in DOMAIN log : j > i /\ log[j].el = "nextBtn"

\* C3 amended: a failure on a dropdown or on one of the fixed "no" radio
\* buttons (stages 2, 4, 6, 7) is swallowed and the stage carries on; a
\* failure on a stage-1 radio button, on a text field the record has a value
\* for, or on "nextBtn" propagates and ends the stage there; the stage
\* completes, clicking "nextBtn" last, exactly when none of those fails.
C3_CaughtAndUncaughtFailures ==
    AfterDataStage =>
        LET st == Last(calls)
        IN  /\ \A i \in DOMAIN log :
                  (IsFailure(log[i]) /\ log[i].el \in CaughtEls) => i < Len(log)
            /\ step_err = NoErr <=> \A e \in UncaughtEls(st) : page[e] = "ok"
            /\ step_err = NoErr =>
                  (Last(log) = Ev("click", "nextBtn", <<>>) /\ pc # "except")
            /\ step_err # NoErr =>
                  /\ step_err.el \in UncaughtEls(st)
                  /\ page[step_err.el] # "ok"
                  /\ IsFailure(Last(log))
                  /\ Last(log).el = step_err.el
                  /\ pc = "except"

\* C3 witness: stage 2 met no "gender" dropdown, swallowed the failed lookup
\* and completed.
C3_Witness ==
    /\ AfterDataStage
    /\ Last(calls) = "fill_stage2_applicant_details"
    /\ page["gender"] = "absent"
    /\ \E i \in DOMAIN log : log[i] = Ev("find_failed", "gender", <<>>)
    /\ Last(log) = Ev("click", "nextBtn", <<>>)
    /\ pc = "fill_stage3_family_details"

RecordStages ==
    {"fill_stage2_applicant_details", "fill_stage3_family_details",
     "fill_stage4_address_details", "fill_stage5_emergency_contact"}

AfterRecordStage == calls # <<>> /\ Last(calls) \in RecordStages

StageDropdownsOf(st) ==
    CASE st = "fill_stage2_applicant_details" -> SeqToSet(Stage2Selects)
      [] st = "fill_stage4_address_details" -> {"state"}
      [] OTHER -> {}

\* C4 as stated: for every text or dropdown field of stages 2 to 5 without a
\* value in the record, the stage does nothing on the field's element and
\* completes when "nextBtn" is there.
C4_Original ==
    AfterRecordStage =>
        \A f \in StageTextOf(Last(calls)) \cup StageDropdownsOf(Last(calls)) :
            HasNoValue(f) =>
                /\ ~Touched(f)
                /\ page["nextBtn"] = "ok" => step_err = NoErr

\* every text field of the stage that has a value found a usable element
TextFieldsUsable(st) == \A t \in StageTextOf(st) : HasNoValue(t) \/ page[t] = "ok"

\* C4 amended: a text field without a value (absent or empty) is not looked
\* up nor typed into, and the stage completes when "nextBtn" and the elements
\* of the text fields that have a value are usable.  A dropdown is looked up
\* all the same: stage 2 selects the record's value or, without an entry,
\* the default; stage 4 selects nothing in "state" nor "district".
C4_MissingFields ==
    AfterRecordStage =>
        LET st == Last(calls)
        IN  /\ \A f \in StageTextOf(st) : HasNoValue(f) => ~Touched(f)
            /\ (page["nextBtn"] = "ok" /\ TextFieldsUsable(st)) => step_err = NoErr
            /\ (st = "fill_stage2_applicant_details" /\ TextFieldsUsable(st)) =>
                  \A f \in SeqToSet(Stage2Selects) :
                      /\ Touched(f)
                      /\ page[f] = "ok" =>
                            \E i \in DOMAIN log :
                                log[i] = Ev("select", f,
                                            IF f \in DOMAIN user_data THEN user_data[f]
                                            ELSE SelectDefault(f))
            /\ (st = "fill_stage4_address_details" /\ TextFieldsUsable(st)) =>
                  /\ Touched("state")
                  /\ HasNoValue("state") =>
                        /\ ~Touched("district")
                        /\ \A i \in DOMAIN log :
                              log[i].el = "state" => log[i].op \in {"find", "find_failed"}

\* C4 witness: the record has no placeOfBirth; stage 2 completed and did not
\* touch that element.
C4_Witness ==
    /\ AfterRecordStage
    /\ Last(calls) = "fill_stage2_applicant_details"
    /\ "placeOfBirth" \notin DOMAIN user_data
    /\ ~Touched("placeOfBirth")
    /\ Touched("dob")
    /\ step_err = NoErr
    /\ pc = "fill_stage3_family_details"

NoDriver == Err("FileNotFoundError", "chromedriver.exe")

NoWebsiteFile == Err("FileNotFoundError", "website_file")

\* C5 as stated: when either setup failure is raised no browser has been
\* launched and the session handle has never been set.
C5_Original ==
    (pc = "except" /\ step_err.type = "FileNotFoundError") =>
        (browser = "none" /\ driver = "None" /\ service = None)

\* C5 amended: the missing bridge executable is raised by start_browser
\* before anything is launched or set; the missing target file is raised by
\* navigate_to_website with the browser already running and the handle set,
\* before any interaction with the browser; either one aborts the run.
C5_SetupFailures ==
    /\ (calls = <<"start_browser">> /\ ~Truthy(found.path)) =>
            (step_err = NoDriver /\ pc = "except")
    /\ (pc = "except" /\ step_err = NoDriver) =>
            /\ calls = <<"start_browser">>
            /\ browser = "none"
            /\ driver = "None"
            /\ service = None
            /\ wait = None
            /\ log = <<>>
    /\ (pc = "except" /\ step_err = NoWebsiteFile) =>
            /\ calls = <<"start_browser", "navigate_to_website">>
            /\ browser = "running"
            /\ driver = "webdriver"
            /\ log = <<>>
    /\ step_err.type = "FileNotFoundError" => pc \in {"except", "finally", "done"}
    /\ (outcome = "raised" /\ step_err.type = "FileNotFoundError") => driver = "None"

\* C5 witness: the target file is missing; the failure is raised while the
\* browser runs.
C5_Witness ==
    /\ pc = "except"
    /\ step_err = NoWebsiteFile
    /\ browser = "running"
    /\ driver = "webdriver"

\* the state right after navigate_to_website has run
AfterNavigate == calls # <<>> /\ Last(calls) = "navigate_to_website"

\* the URL with every "file:///" taken out and every "/" turned into os.sep
CheckedPath == Replace(Replace(website_url, FilePrefix, <<>>), <<Slash>>, <<os_sep>>)

\* C6: for a "file:///" URL whose local path is no file, navigate_to_website
\* raises without having asked the browser for anything (no load, no wait);
\* for every other URL, and for a "file:///" URL whose file exists, the first
\* thing it does is ask the browser to load the URL.
C6_CheckBeforeLoad ==
    AfterNavigate =>
        IF SubSeq(website_url, 1, 8) = FilePrefix /\ CheckedPath \notin html_files
        THEN /\ step_err = NoWebsiteFile
             /\ log = <<>>
             /\ pc = "except"
        ELSE /\ step_err # NoWebsiteFile
             /\ log # <<>>
             /\ log[1].op \in {"get", "get_failed"}
             /\ log[1].arg = website_url
             /\ \A i \in DOMAIN log : log[i].op \in {"wait", "wait_timeout"} => i > 1

\* C6 witness: a "file:///" URL without its file raised with no interaction,
\* although another local file exists.
C6_Witness ==
    /\ AfterNavigate
    /\ website_url = WebsiteFile
    /\ html_files = {<<"m", ".", "h">>}
    /\ step_err = NoWebsiteFile
    /\ log = <<>>
    /\ driver = "webdriver"

\* the state right after submit_with_captcha has run
AfterSubmit == pc = "finally" /\ ref.state # "idle"

\* C7: submit_with_captcha raises exactly when the CAPTCHA input or the
\* submit control cannot be found or used; otherwise it has clicked submit
\* and returns the text of refNumber when that element is there and
\* readable, and None when it is not.
C7_SubmitResult ==
    AfterSubmit =>
        LET unusable == page["captchaInput"] # "ok" \/ page["submitBtn"] # "ok"
        IN  /\ ref.state = "raised" <=> unusable
            /\ ref.state = "raised" =>
                  /\ exc # NoErr
                  /\ exc.el \in {"captchaInput", "submitBtn"}
                  /\ ref.value = None
                  /\ ~Touched("refNumber")
            /\ ref.state = "returned" =>
                  /\ exc = NoErr
                  /\ \E i \in DOMAIN log : log[i] = Ev("click", "submitBtn", <<>>)
                  /\ page["refNumber"] = "ok" =>
                        (Last(log).op = "text" /\ ref.value = <<Last(log).arg>>)
                  /\ page["refNumber"] # "ok" => ref.value = None

\* C7 witness: the submit went through and the page has no refNumber:
\* the call returned None without raising.
C7_Witness ==
    /\ AfterSubmit
    /\ page["refNumber"] = "absent"
    /\ ref = [state |-> "returned", value |-> None]
    /\ exc = NoErr
    /\ Last(log) = Ev("find_failed", "refNumber", <<>>)

\* the positions of the cache listing a pattern matches
NamedAt == {i \in DOMAIN cache : MatchesNamed(cache[i])}

AnyExeAt == {i \in DOMAIN cache : MatchesAnyExe(cache[i])}

\* the existing files among everything the search may look at
Existing == files \cup {EntryPath(cache[i]) : i \in DOMAIN cache}

OverrideTarget == abspath(expanduser(driver_path_override))

OverrideExists == driver_path_override # None /\ OverrideTarget \in Existing

FallbacksAt == {i \in DOMAIN fallback_paths : fallback_paths[i] \in Existing}

\* C8: find_local_chromedriver returns the candidate of the first step that
\* has one: the existing override; else a file of the cache tree matching
\* the named pattern; else, only when none matches it, any executable of the
\* cache tree; else the first existing fallback location of the list; and
\* None exactly when no step has a candidate.
C8_FirstStepWins ==
    pc = "found" =>
        /\ IF OverrideExists
           THEN found = [step |-> "override", path |-> OverrideTarget]
           ELSE IF wdm_isdir /\ NamedAt # {}
           THEN /\ found.step = "named"
                /\ found.path \in {EntryPath(cache[i]) : i \in NamedAt}
           ELSE IF wdm_isdir /\ AnyExeAt # {}
           THEN /\ found.step = "anyexe"
                /\ found.path \in {EntryPath(cache[i]) : i \in AnyExeAt}
           ELSE IF FallbacksAt # {}
           THEN /\ found.step = "fallback"
                /\ \E i \in FallbacksAt :
                      /\ found.path = fallback_paths[i]
                      /\ \A j \in FallbacksAt : i <= j
           ELSE found.step = "none"
        /\ found.path = None <=>
              ~(OverrideExists \/ (wdm_isdir /\ AnyExeAt # {}) \/ FallbacksAt # {})

\* C8 witness: the override exists and wins over a named cache candidate and
\* over an existing fallback location.
C8_Witness ==
    /\ pc = "found"
    /\ driver_path_override = <<"~", "drv", ".exe">>
    /\ wdm_isdir
    /\ NamedAt # {}
    /\ fallback_paths[1] \in files
    /\ found = [step |-> "override", path |-> HomeDir \o <<"drv", ".exe">>]

\* the candidates of the cache step: the named ones, or any executable when
\* there is no named one
CandidatesAt == IF NamedAt # {} THEN NamedAt ELSE AnyExeAt

\* C9: with no existing override and several cache candidates of pairwise
\* distinct modification times, the path returned is that of the candidate
\* modified last.
C9_NewestCandidate ==
    ( /\ pc = "found"
      /\ ~OverrideExists
      /\ wdm_isdir
      /\ Cardinality(CandidatesAt) >= 2
      /\ \A i, j \in CandidatesAt : i # j => cache[i].mtime # cache[j].mtime )
    => \E i \in CandidatesAt :
          /\ found.path = EntryPath(cache[i])
          /\ \A j \in CandidatesAt : cache[j].mtime <= cache[i].mtime

\* C9 witness: two executables, none named chromedriver, the newer one
\* listed last, and the newer one returned.
C9_Witness ==
    /\ pc = "found"
    /\ ~OverrideExists
    /\ NamedAt = {}
    /\ AnyExeAt = {1, 2}
    /\ cache[1].mtime < cache[2].mtime
    /\ found = [step |-> "anyexe", path |-> EntryPath(cache[2])]

\* C10: a close_browser call (in the except clause or in the caller's
\* finally) raises nothing and leaves driver = None, whether or not
\* driver.quit() succeeds; on a session with no handle it touches neither
\* the browser nor the session.
C10_CloseBrowser ==
    [][ (pc = "except" \/ pc = "finally") =>
            /\ driver' = "None"
            /\ close_err' = NoErr
            /\ exc' = IF pc = "except" THEN step_err ELSE exc
            /\ driver # "None" =>
                  (log' \in {<<Ev("quit", "chrome", <<>>)>>,
                             <<Ev("quit_failed", "chrome", <<>>)>>})
            /\ driver = "None" =>
                  /\ log' = <<>>
                  /\ UNCHANGED <<driver, wait, captcha_code, service, browser>>
      ]_vars

\* C10 witness: driver.quit() failed in the except clause (the browser is
\* still running), the handle was cleared all the same, and the second
\* close_browser call, in the caller's finally, did nothing.
C10_Witness ==
    /\ pc = "done"
    /\ outcome = "raised"
    /\ browser = "running"
    /\ driver = "None"
    /\ log = <<>>
    /\ exc = step_err

\* the session is open: the handle is set and its browser is running
SessionOpen == driver = "webdriver" /\ browser = "running"

\* automate_fresh_passport has returned and the caller's finally has not run
BeforeFinalClose == outcome = "returned" /\ (pc = "main_if_captcha" \/ pc = "finally")

\* the top-level flow is over with the session handle cleared
EndedClosed == pc = "done" /\ driver = "None"

\* the chain failed: the except clause has run close_browser and the handle
\* is cleared before the caller's finally is reached
ChainFailureClosedOnce ==
    outcome = "raised" =>
        /\ pc = "finally" \/ pc = "done"
        /\ Last(calls) = "close_browser"
        /\ driver = "None"
        /\ ref.state = "idle"

\* the caller's close_browser after a failed chain does nothing
SecondCloseIsNoOp ==
    (pc = "finally" /\ outcome = "raised") =>
        /\ pc' = "done"
        /\ log' = <<>>
        /\ exc' = exc
        /\ UNCHANGED <<driver, wait, captcha_code, service, browser>>

\* the statements between the return and the finally clause, submit
\* included, leave the session as it is, whether they raise or not
SubmitLeavesSessionOpen ==
    pc = "main_if_captcha" =>
        /\ pc' = "finally"
        /\ UNCHANGED <<driver, wait, service, browser>>

\* after a successful return it is the caller's finally that clears the handle
FinalCloseClears ==
    (pc = "finally" /\ outcome = "returned") =>
        /\ driver = "webdriver"
        /\ driver' = "None"
        /\ pc' = "done"
        /\ log' \in {<<Ev("quit", "chrome", <<>>)>>, <<Ev("quit_failed", "chrome", <<>>)>>}

\* C11: every run of the top-level flow eventually ends, and stays, with
\* the session handle cleared.  When the chain fails the except clause has
\* already run close_browser and the caller's finally runs it a second time
\* as a no-op.  When automate_fresh_passport returns, the session stays open
\* until the caller's finally: submit_with_captcha, raising or not, works on
\* a set handle and does not close the session; only the finally clause does.
C11_EveryRunEndsClosed ==
    /\ <>[]EndedClosed
    /\ [](ChainFailureClosedOnce)
    /\ [](BeforeFinalClose => SessionOpen)
    /\ [][SecondCloseIsNoOp]_vars
    /\ [][SubmitLeavesSessionOpen]_vars
    /\ [][FinalCloseClears]_vars

\* C11 witness: the CAPTCHA was captured, submit_with_captcha raised, and
\* the caller's finally then closed the browser and cleared the handle.
C11_Witness ==
    /\ pc = "done"
    /\ outcome = "returned"
    /\ ref.state = "raised"
    /\ exc # NoErr
    /\ browser = "closed"
    /\ driver = "None"

====
